---- MODULE Spec2Model ----
(***************************************************************************)
(* R*-tree of logngine::core (RSTTree.h / RSTTree.cpp): insertion with the *)
(* R* overflow split and root promotion, and the kNN query with a filter.  *)
(* Coordinates are small naturals, so every double of the code is an       *)
(* exact integer here; the code's +infinity is the sentinel inf.           *)
(***************************************************************************)
EXTENDS Integers, Sequences, FiniteSets, TLC

\* ------------------------------------------------------------------------
\* Template parameters and constants
\* ------------------------------------------------------------------------

\* template parameter D_REGION of RSTTree: the dimension
D_REGION == 2
\* template parameter N_CHILD of RSTTree: capacity of an internal node
N_CHILD == 2
\* template parameter N_KEYS of RSTTree: capacity of a leaf, defaulted to N_CHILD
N_KEYS == N_CHILD
\* std::numeric_limits<double>::infinity(), above every finite value of the model
inf == 1000000

\* ------------------------------------------------------------------------
\* Bounds of the model
\* ------------------------------------------------------------------------

\* coordinates of inserted keys and of query keys are 0..MaxCoord
MaxCoord == 1
\* payloads are 1..MaxPayload
MaxPayload == 2
\* number of insert calls explored
MaxInserts == 5
\* number of insert calls explored by SpecDeep
MaxDeepInserts == 7
\* queries are explored on trees holding at most this many entries
MaxQueryEntries == 3
\* max_k of a query is 0..MaxK
MaxK == 3
\* components of a query's scale are 1..MaxScale
MaxScale == 2
\* capacities N and L of the nodes whose find_best_split SpecSplit calls
MaxSplitN == 8
MaxSplitL == 3
\* SpecSplit draws an array of up to MaxGridEntries entries from the grid whose
\* first coordinate is 0..MaxSplitCoord, a longer one from two points
MaxGridEntries == 4
MaxSplitCoord == 3

Axes == 1..D_REGION
Coords == 0..MaxCoord
Points == [Axes -> Coords]
Payloads == 1..MaxPayload
\* the payload SpecDeep inserts
DeepPayload == CHOOSE v \in Payloads : \A o \in Payloads : v <= o

ceval_max(a, b) == IF a > b THEN a ELSE b

\* MIN_SPLIT_COUNT of a node with template parameter N:
\* static_cast<size_t>(MIN_SPLIT * N) with MIN_SPLIT = 0.25, at least 1
MinSplitCountOf(N) == ceval_max(N \div 4, 1)

MIN_SPLIT_COUNT == MinSplitCountOf(N_CHILD)

StdMin(a, b) == IF b < a THEN b ELSE a
StdMax(a, b) == IF a < b THEN b ELSE a

\* ------------------------------------------------------------------------
\* Minimum bounding regions
\* ------------------------------------------------------------------------

\* MinimumBoundingRegion(): the empty box
EmptyMBR == [min |-> [i \in Axes |-> inf], max |-> [i \in Axes |-> 0 - inf]]

\* MinimumBoundingRegion(point)
PointMBR(point) == [min |-> point, max |-> point]

\* expand(const MinimumBoundingRegion&)
ExpandRegion(this, region) ==
    [min |-> [i \in Axes |-> IF region.min[i] < this.min[i] THEN region.min[i] ELSE this.min[i]],
     max |-> [i \in Axes |-> IF region.max[i] > this.max[i] THEN region.max[i] ELSE this.max[i]]]

\* Variant of expand that raises max and leaves min as it was
ExpandPointMaxOnly(this, point) ==
    [min |-> this.min,
     max |-> [i \in Axes |-> IF point[i] > this.max[i] THEN point[i] ELSE this.max[i]]]

\* expand(const std::array<double, D>&)
ExpandPoint(this, point) ==
    [min |-> [i \in Axes |-> IF point[i] < this.min[i] THEN point[i] ELSE this.min[i]],
     max |-> [i \in Axes |-> IF point[i] > this.max[i] THEN point[i] ELSE this.max[i]]]

\* contains(point), inclusive on both bounds
Contains(this, point) ==
    \A i \in Axes : ~(point[i] < this.min[i] \/ point[i] > this.max[i])

RECURSIVE AreaFrom(_, _)
AreaFrom(this, i) ==
    IF i > D_REGION THEN 1 ELSE (this.max[i] - this.min[i]) * AreaFrom(this, i + 1)

\* area(): product of the side lengths
Area(this) == AreaFrom(this, 1)

RECURSIVE OverlapFrom(_, _, _, _)
OverlapFrom(A, B, i, volume) ==
    IF i > D_REGION THEN volume
    ELSE LET overlap == StdMin(A.max[i], B.max[i]) - StdMax(A.min[i], B.min[i])
         IN  IF overlap <= 0 THEN 0 ELSE OverlapFrom(A, B, i + 1, volume * overlap)

\* compute_overlap: volume of the intersection, 0 as soon as an axis gives <= 0
compute_overlap(A, B) == OverlapFrom(A, B, 1, 1)

RECURSIVE MarginFrom(_, _, _)
MarginFrom(A, B, i) ==
    IF i > D_REGION THEN 0
    ELSE (A.max[i] - A.min[i]) + (B.max[i] - B.min[i]) + MarginFrom(A, B, i + 1)

\* compute_margin: 2 * sum of the side lengths of both boxes
compute_margin(A, B) == 2 * MarginFrom(A, B, 1)

\* compute_area: sum of the two areas
compute_area(A, B) == Area(A) + Area(B)

\* union of the regions of entries[from..to], built by expand from the empty box
RECURSIVE UnionOf(_, _, _)
UnionOf(entries, from, to) ==
    IF from > to THEN EmptyMBR
    ELSE ExpandRegion(UnionOf(entries, from, to - 1), entries[to].region)

\* ------------------------------------------------------------------------
\* std::sort of the split entries by region.min[axis]
\* ------------------------------------------------------------------------

\* Position at which e goes into the sorted prefix. std::sort leaves the order
\* of entries with equal keys unspecified: with rev = FALSE equal entries keep
\* their input order, with rev = TRUE they end up in the opposite order.
RECURSIVE SortPos(_, _, _, _, _)
SortPos(sorted, e, axis, rev, i) ==
    IF i > Len(sorted) THEN i
    ELSE IF e.region.min[axis] < sorted[i].region.min[axis] THEN i
    ELSE IF rev /\ e.region.min[axis] = sorted[i].region.min[axis] THEN i
    ELSE SortPos(sorted, e, axis, rev, i + 1)

InsertAt(s, i, e) == SubSeq(s, 1, i - 1) \o <<e>> \o SubSeq(s, i, Len(s))

RECURSIVE SortFrom(_, _, _, _, _)
SortFrom(entries, axis, rev, i, sorted) ==
    IF i > Len(entries) THEN sorted
    ELSE SortFrom(entries, axis, rev, i + 1,
                  InsertAt(sorted, SortPos(sorted, entries[i], axis, rev, 1), entries[i]))

\* std::sort(entries.begin(), entries.end(), a.region.min[axis] < b.region.min[axis])
SortByAxis(entries, axis, rev) == SortFrom(entries, axis, rev, 1, <<>>)

\* ------------------------------------------------------------------------
\* The R* split
\* ------------------------------------------------------------------------

\* SplitTracker{}: axis and location 0, the three costs +infinity
NewSplitTracker == [axis |-> 0, location |-> 0, overlap |-> inf, margin |-> inf, area |-> inf]

\* SplitTracker::update
TrackerUpdate(axis, location, overlap, margin, area) ==
    [axis |-> axis, location |-> location, overlap |-> overlap, margin |-> margin, area |-> area]

\* What the loop body computes for the candidate (axis, k) of a node of leaf
\* capacity L: lower = entries [0, k), upper = entries [k, L + 1), and their
\* overlap, margin and area (axis is the code's 0-based axis)
CandidateAt(entries, axis, k, L) ==
    [axis     |-> axis,
     location |-> k,
     overlap  |-> compute_overlap(UnionOf(entries, 1, k), UnionOf(entries, k + 1, L + 1)),
     margin   |-> compute_margin(UnionOf(entries, 1, k), UnionOf(entries, k + 1, L + 1)),
     area     |-> compute_area(UnionOf(entries, 1, k), UnionOf(entries, k + 1, L + 1))]

\* The comparisons of the loop body: the tracker after candidate c
SplitCandidate(best_split, c) ==
    IF c.overlap > best_split.overlap THEN best_split
    ELSE IF c.overlap < best_split.overlap
    THEN TrackerUpdate(c.axis, c.location, c.overlap, c.margin, c.area)
    ELSE IF c.margin < best_split.margin
    THEN TrackerUpdate(c.axis, c.location, c.overlap, c.margin, c.area)
    ELSE IF c.area < best_split.area
    THEN TrackerUpdate(c.axis, c.location, c.overlap, c.margin, c.area)
    ELSE best_split

\* One pass of the loop body: the tracker updated, the candidate noted as scanned
ScanStep(st, c) ==
    [best_split |-> SplitCandidate(st.best_split, c), scanned |-> Append(st.scanned, c)]

\* for (k = MIN_SPLIT_COUNT; k < L + 1 - MIN_SPLIT_COUNT; ++k), with
\* m = MIN_SPLIT_COUNT
RECURSIVE ScanPositions(_, _, _, _, _, _)
ScanPositions(st, entries, axis, k, L, m) ==
    IF ~(k < L + 1 - m) THEN st
    ELSE ScanPositions(ScanStep(st, CandidateAt(entries, axis, k, L)),
                       entries, axis, k + 1, L, m)

RECURSIVE ScanAxes(_, _, _, _, _, _)

\* the loop over k on the entries as std::sort left them, then the next axis
ScanSorted(st, sorted, axis, rev, L, m) ==
    ScanAxes(ScanPositions(st, sorted, axis, m, L, m), sorted, axis + 1, rev, L, m)

\* for (axis = 0; axis < D; ++axis): sort in place, then scan the positions
ScanAxes(st, entries, axis, rev, L, m) ==
    IF ~(axis < D_REGION)
    THEN [best_split |-> st.best_split, scanned |-> st.scanned, entries |-> entries]
    ELSE ScanSorted(st, SortByAxis(entries, axis + 1, rev), axis, rev, L, m)

\* What find_best_split returns from the result r of its loops
SplitFound(r) ==
    [best_split |-> r.best_split, entries |-> r.entries, scanned |-> r.scanned,
     throws |-> r.best_split.overlap = inf]

\* find_best_split of RSTLeafNode<D, N, L, S> on its N + 1 entries, with
\* m = MIN_SPLIT_COUNT: the tracker, the entries as the scan left them (sorted
\* on the last axis), the candidates scanned, and whether "Could not find a
\* valid split." is thrown
find_best_split_of(entries, rev, L, m) ==
    SplitFound(ScanAxes([best_split |-> NewSplitTracker, scanned |-> <<>>],
                        entries, 0, rev, L, m))

\* find_best_split in the tree of this model
find_best_split(entries, rev) == find_best_split_of(entries, rev, N_KEYS, MIN_SPLIT_COUNT)

\* Variant of partition_entries that fills the upper half from index 0 on
partition_entries_no_offset(sorted_entries, split_index) ==
    [lower            |-> UnionOf(sorted_entries, 1, split_index),
     upper            |-> UnionOf(sorted_entries, split_index + 1, N_KEYS + 1),
     lower_subregions |-> [j \in 1..split_index |-> sorted_entries[j].region],
     lower_children   |-> [j \in 1..split_index |-> sorted_entries[j].value],
     upper_subregions |-> [j \in 1..(N_KEYS + 1 - split_index) |-> sorted_entries[j].region],
     upper_children   |-> [j \in 1..(N_KEYS + 1 - split_index) |-> sorted_entries[j].value]]

\* partition_entries: entries [0, split_index) and [split_index, L + 1)
partition_entries(sorted_entries, split_index) ==
    [lower            |-> UnionOf(sorted_entries, 1, split_index),
     upper            |-> UnionOf(sorted_entries, split_index + 1, N_KEYS + 1),
     lower_subregions |-> [j \in 1..split_index |-> sorted_entries[j].region],
     lower_children   |-> [j \in 1..split_index |-> sorted_entries[j].value],
     upper_subregions |-> [j \in 1..(N_KEYS + 1 - split_index) |-> sorted_entries[j + split_index].region],
     upper_children   |-> [j \in 1..(N_KEYS + 1 - split_index) |-> sorted_entries[j + split_index].value]]

\* ------------------------------------------------------------------------
\* Nodes.  A node is a record: kind, size, the cached region, and the filled
\* slots of the arrays subregions and children.  An optional (std::optional,
\* a null pointer) is a sequence of length 0 or 1.
\* ------------------------------------------------------------------------

\* the identity of a node object that make_unique has just constructed, until
\* the insert call that constructed it returns
Fresh == <<>>

\* RSTLeafNode(size, region, subregions, children)
LeafNode(size, region, subregions, children) ==
    [kind |-> "leaf", id |-> Fresh, size |-> size, region |-> region,
     subregions |-> subregions, children |-> children]

\* RSTInternalNode with its four members set
InternalNode(size, region, subregions, children) ==
    [kind |-> "internal", id |-> Fresh, size |-> size, region |-> region,
     subregions |-> subregions, children |-> children]

\* RSTNodeFN::is_leaf
is_leaf(node) == node.kind = "leaf"

\* Variant of is_full that lets a leaf take one entry more
LeafIsFullLate(this) == this.size = N_KEYS + 1

\* RSTLeafNode::is_full
LeafIsFull(this) == this.size = N_KEYS

\* Variant of is_full that lets an internal node take one child more
InternalIsFullLate(this) == this.size = N_CHILD + 1

\* RSTInternalNode::is_full
InternalIsFull(this) == this.size = N_CHILD

\* Variant of pack_entries that puts the last existing entry in the extra slot
\* once more, in place of the new one
pack_entries_again(subregions, children, new_region, new_value) ==
    [i \in 1..(N_CHILD + 1) |->
        IF i <= N_CHILD THEN [region |-> subregions[i], value |-> children[i]]
        ELSE [region |-> subregions[N_CHILD], value |-> children[N_CHILD]]]

\* pack_entries (both node kinds): the N existing entries, then the new one
pack_entries(subregions, children, new_region, new_value) ==
    [i \in 1..(N_CHILD + 1) |->
        IF i <= N_CHILD THEN [region |-> subregions[i], value |-> children[i]]
        ELSE [region |-> new_region, value |-> new_value]]

\* What a split did, as the caller of insert can observe it afterwards
SplitEvent(kind, size_before, best_split, p) ==
    [kind |-> kind, size_before |-> size_before, best_split |-> best_split,
     lower_size |-> best_split.location,
     upper_size |-> N_KEYS + 1 - best_split.location,
     lower |-> p.lower, upper |-> p.upper]

\* The result of a node's insert: the node as mutated, the optional SplitResult,
\* the splits performed on the way, and whether an exception left the call
InsertResult(node, split, events, threw) ==
    [node |-> node, split |-> split, events |-> events, threw |-> threw]

\* RSTLeafNode::insert after partition_entries: the node rewritten to the
\* lower half, the sibling made of the upper half
LeafPartition(this, best_split, p) ==
    InsertResult(
        [this EXCEPT !.region = p.lower,
                     !.size = best_split.location,
                     !.subregions = p.lower_subregions,
                     !.children = p.lower_children],
        <<[new_region |-> p.upper,
           sibling |-> LeafNode(N_KEYS + 1 - best_split.location, p.upper,
                                p.upper_subregions, p.upper_children)]>>,
        <<SplitEvent("leaf", this.size, best_split, p)>>,
        FALSE)

\* RSTLeafNode::insert once find_best_split has returned or thrown: the sort
\* on the best axis, then the partition
LeafSplit(this, found, rev) ==
    IF found.throws THEN InsertResult(this, <<>>, <<>>, TRUE)
    ELSE LeafPartition(this, found.best_split,
            partition_entries(SortByAxis(found.entries, found.best_split.axis + 1, rev),
                              found.best_split.location))

\* RSTLeafNode::insert
LeafInsert(this, key, value, rev) ==
    IF ~LeafIsFull(this)
    THEN InsertResult(
            [this EXCEPT !.subregions = Append(this.subregions, PointMBR(key)),
                         !.children = Append(this.children, value),
                         !.region = ExpandPoint(this.region, key),
                         !.size = this.size + 1],
            <<>>, <<>>, FALSE)
    ELSE LeafSplit(this,
            find_best_split(pack_entries(this.subregions, this.children, PointMBR(key), value),
                            rev),
            rev)

\* Variant of the loop of find_best_child_insertion in which a child equal on
\* enlargement and area to the best so far replaces it
RECURSIVE BestChildLast(_, _, _, _)
BestChildLast(this, key_mbr, i, best) ==
    IF i > this.size THEN best.best_index
    ELSE LET original_area == Area(this.subregions[i])
             enlargement   == Area(ExpandRegion(this.subregions[i], key_mbr)) - original_area
         IN  IF enlargement < best.best_enlargement
                \/ (enlargement = best.best_enlargement /\ original_area <= best.best_area)
             THEN BestChildLast(this, key_mbr, i + 1,
                      [best_index |-> i, best_enlargement |-> enlargement, best_area |-> original_area])
             ELSE BestChildLast(this, key_mbr, i + 1, best)

\* The loop of find_best_child_insertion over the children i..size
RECURSIVE BestChildFrom(_, _, _, _)
BestChildFrom(this, key_mbr, i, best) ==
    IF i > this.size THEN best.best_index
    ELSE LET original_area == Area(this.subregions[i])
             enlargement   == Area(ExpandRegion(this.subregions[i], key_mbr)) - original_area
         IN  IF enlargement < best.best_enlargement
                \/ (enlargement = best.best_enlargement /\ original_area < best.best_area)
             THEN BestChildFrom(this, key_mbr, i + 1,
                      [best_index |-> i, best_enlargement |-> enlargement, best_area |-> original_area])
             ELSE BestChildFrom(this, key_mbr, i + 1, best)

\* find_best_child_insertion; indices are 1-based here, so the code's initial 0 is 1
find_best_child_insertion(this, key_mbr) ==
    BestChildFrom(this, key_mbr, 1,
                  [best_index |-> 1, best_enlargement |-> inf, best_area |-> inf])

RECURSIVE NodeInsert(_, _, _, _)

\* RSTInternalNode::insert after partition_entries ("Finalize current node",
\* "Create sibling node"); events are the splits done below this node
InternalPartition(this, events, best_split, p) ==
    InsertResult(
        [this EXCEPT !.region = p.lower,
                     !.size = best_split.location,
                     !.subregions = p.lower_subregions,
                     !.children = p.lower_children],
        <<[new_region |-> p.upper,
           sibling |-> InternalNode(N_KEYS + 1 - best_split.location, p.upper,
                                    p.upper_subregions, p.upper_children)]>>,
        Append(events, SplitEvent("internal", this.size, best_split, p)),
        FALSE)

\* RSTInternalNode::insert once find_best_split has returned or thrown
InternalSplit(this, events, found, rev) ==
    IF found.throws THEN InsertResult(this, <<>>, events, TRUE)
    ELSE InternalPartition(this, events, found.best_split,
            partition_entries(SortByAxis(found.entries, found.best_split.axis + 1, rev),
                              found.best_split.location))

\* RSTInternalNode::insert after the recursive call: r is what the insert into
\* children[best_index] gave, r.node that child as the call mutated it in place
InternalAfterChild(this, best_index, r, key, rev) ==
    LET mutated == [this EXCEPT !.children[best_index] = r.node]
    IN  IF r.threw THEN InsertResult(mutated, <<>>, r.events, TRUE)
        ELSE IF r.split = <<>>
        THEN InsertResult(
                [mutated EXCEPT !.subregions[best_index] = ExpandPoint(@, key),
                                !.region = ExpandPoint(this.region, key)],
                <<>>, r.events, FALSE)
        ELSE IF ~InternalIsFull(this)
        THEN InsertResult(
                [mutated EXCEPT !.subregions = Append(this.subregions, r.split[1].new_region),
                                !.children = Append(mutated.children, r.split[1].sibling),
                                !.region = ExpandRegion(this.region, r.split[1].new_region),
                                !.size = this.size + 1],
                <<>>, r.events, FALSE)
        ELSE InternalSplit(mutated, r.events,
                find_best_split(pack_entries(mutated.subregions, mutated.children,
                                             r.split[1].new_region, r.split[1].sibling),
                                rev),
                rev)

\* RSTInternalNode::insert from the recursive call on
InternalDescend(this, best_index, key, value, rev) ==
    InternalAfterChild(this, best_index,
                       NodeInsert(this.children[best_index], key, value, rev), key, rev)

\* RSTInternalNode::insert
InternalInsert(this, key, value, rev) ==
    InternalDescend(this, find_best_child_insertion(this, PointMBR(key)), key, value, rev)

\* RSTNodeFN::insert: dispatch on the variant
NodeInsert(node, key, value, rev) ==
    IF node.kind = "internal" THEN InternalInsert(node, key, value, rev)
    ELSE LeafInsert(node, key, value, rev)

\* Variant of the root promotion that hangs the sibling one level lower than
\* the old root
NewRootSkewed(old, split) ==
    InternalNode(2, ExpandRegion(old.region, split.new_region),
                 <<old.region, split.new_region>>,
                 <<old, InternalNode(1, split.new_region, <<split.new_region>>,
                                     <<split.sibling>>)>>)

\* Variant of the root promotion that installs the sibling first and the old
\* root second
NewRootSwapped(old, split) ==
    InternalNode(2, ExpandRegion(old.region, split.new_region),
                 <<split.new_region, old.region>>,
                 <<split.sibling, old>>)

\* RSTTree::insert, case 4: the new internal root over the old root and the
\* sibling its split produced
NewRoot(old, split) ==
    InternalNode(2, ExpandRegion(old.region, split.new_region),
                 <<old.region, split.new_region>>,
                 <<old, split.sibling>>)

\* RSTTree::insert, cases 3 and 4, on what the root's insert gave
AfterRootInsert(r) ==
    IF r.threw \/ r.split = <<>>
    THEN [root |-> <<r.node>>, events |-> r.events, threw |-> r.threw, split |-> <<>>]
    ELSE [root |-> <<NewRoot(r.node, r.split[1])>>, events |-> r.events, threw |-> FALSE,
          split |-> <<[old_root |-> r.node, new_region |-> r.split[1].new_region,
                       sibling |-> r.split[1].sibling]>>]

\* The node objects an insert call constructed told apart from all others: each
\* is named by the call and by its depth below the root the call leaves.  A node
\* that was moved keeps the identity it had.
RECURSIVE Identified(_, _, _)
RECURSIVE IdentifiedFrom(_, _, _, _)
Identified(node, call, depth) ==
    [node EXCEPT
        !.id = IF @ = Fresh THEN <<call, depth>> ELSE @,
        !.children = IF node.kind = "internal"
                     THEN IdentifiedFrom(@, 1, call, depth + 1)
                     ELSE @]
IdentifiedFrom(children, i, call, depth) ==
    IF i > Len(children) THEN <<>>
    ELSE <<Identified(children[i], call, depth)>> \o IdentifiedFrom(children, i + 1, call, depth)

\* RSTTree::insert on the optional root; gives the new root with the splits done
TreeInsert(old_root, key, value, rev) ==
    IF old_root = <<>>
    THEN [root |-> <<LeafNode(1, ExpandPoint(EmptyMBR, key), <<PointMBR(key)>>, <<value>>)>>,
          events |-> <<>>, threw |-> FALSE, split |-> <<>>]
    ELSE AfterRootInsert(NodeInsert(old_root[1], key, value, rev))

\* ------------------------------------------------------------------------
\* kNN query.  MaxHeap<S> is a std::priority_queue of (distance, payload)
\* pairs: here the sequence of its pairs in ascending order, the top last.
\* A filter is the set of payloads it accepts.
\* ------------------------------------------------------------------------

\* operator< of std::pair<double, S>
PairLess(a, b) == a[1] < b[1] \/ (a[1] = b[1] /\ a[2] < b[2])

RECURSIVE HeapPos(_, _, _)
HeapPos(heap, e, i) ==
    IF i > Len(heap) \/ PairLess(e, heap[i]) THEN i ELSE HeapPos(heap, e, i + 1)

\* result.emplace(dist_sq, payload)
HeapEmplace(heap, dist_sq, payload) ==
    InsertAt(heap, HeapPos(heap, <<dist_sq, payload>>, 1), <<dist_sq, payload>>)

\* result.top(), of a heap that is not empty
HeapTop(heap) == heap[Len(heap)]

\* result.pop()
HeapPop(heap) == SubSeq(heap, 1, Len(heap) - 1)

\* Variant of the filter test that accepts what the filter rejects
FilterRejects(filter, payload) == payload \notin filter

\* the filter applied to a payload
FilterAccepts(filter, payload) == payload \in filter

\* dist_sq of a leaf entry: sum of (key[j] - subregions[i]->min[j])^2, no scale
RECURSIVE EntryDistFrom(_, _, _)
EntryDistFrom(key, point, j) ==
    IF j > D_REGION THEN 0
    ELSE (key[j] - point[j]) * (key[j] - point[j]) + EntryDistFrom(key, point, j + 1)

RECURSIVE BoxDistFrom(_, _, _)
BoxDistFrom(point, box, i) ==
    IF i > D_REGION THEN 0
    ELSE (IF point[i] < box.min[i] THEN (box.min[i] - point[i]) * (box.min[i] - point[i])
          ELSE IF point[i] > box.max[i] THEN (point[i] - box.max[i]) * (point[i] - box.max[i])
          ELSE 0) + BoxDistFrom(point, box, i + 1)

\* point_to_box_distance_squared
point_to_box_distance_squared(point, box) == BoxDistFrom(point, box, 1)

\* The loop of RSTLeafNode::query from entry i on.  st is the result heap and
\* ub, set when result.top() is evaluated on an empty heap; what the call does
\* from there on is undefined, so the scan stops.
RECURSIVE LeafQueryFrom(_, _, _, _, _, _)
LeafQueryFrom(this, key, k, st, filter, i) ==
    IF st.ub \/ i > this.size THEN st
    ELSE IF ~FilterAccepts(filter, this.children[i])
    THEN LeafQueryFrom(this, key, k, st, filter, i + 1)
    ELSE LET dist_sq == EntryDistFrom(key, this.subregions[i].min, 1)
         IN  IF Len(st.heap) < k
             THEN LeafQueryFrom(this, key, k,
                      [st EXCEPT !.heap = HeapEmplace(st.heap, dist_sq, this.children[i])],
                      filter, i + 1)
             ELSE IF st.heap = <<>>
             THEN [st EXCEPT !.ub = TRUE]
             ELSE IF dist_sq < HeapTop(st.heap)[1]
             THEN LeafQueryFrom(this, key, k,
                      [st EXCEPT !.heap = HeapEmplace(HeapPop(st.heap), dist_sq, this.children[i])],
                      filter, i + 1)
             ELSE LeafQueryFrom(this, key, k, st, filter, i + 1)

\* RSTLeafNode::query
LeafQuery(this, key, k, st, filter) == LeafQueryFrom(this, key, k, st, filter, 1)

\* The local min-queue of RSTInternalNode::query: the pairs (dist_sq, i)
ChildQueue(this, key) ==
    {<<point_to_box_distance_squared(key, this.subregions[i]), i>> : i \in 1..this.size}

\* pq.top() of the std::greater<> queue: the least pair
QueueTop(pq) == CHOOSE e \in pq : \A o \in pq : o = e \/ PairLess(e, o)

RECURSIVE NodeQuery(_, _, _, _, _)

\* while (!pq.empty()): pop the nearest child and query it, whatever the heap holds
RECURSIVE DrainQueue(_, _, _, _, _, _)
DrainQueue(this, pq, key, k, st, filter) ==
    IF pq = {} THEN st
    ELSE LET top == QueueTop(pq)
         IN  DrainQueue(this, pq \ {top}, key, k,
                        NodeQuery(this.children[top[2]], key, k, st, filter), filter)

\* RSTInternalNode::query
InternalQuery(this, key, k, st, filter) ==
    DrainQueue(this, ChildQueue(this, key), key, k, st, filter)

\* std::visit of the node's query
NodeQuery(node, key, k, st, filter) ==
    IF st.ub THEN st
    ELSE IF node.kind = "internal" THEN InternalQuery(node, key, k, st, filter)
    ELSE LeafQuery(node, key, k, st, filter)

\* the distances (c = 1) or the payloads (c = 2) of the heap's pairs, ascending
RECURSIVE HeapColumn(_, _)
HeapColumn(heap, c) ==
    IF heap = <<>> THEN <<>> ELSE <<Head(heap)[c]>> \o HeapColumn(Tail(heap), c)

\* RSTTree::query_with_filter: the heap unloaded and reversed is the heap's
\* pairs in ascending order; output is their payloads, dists their distances
query_with_filter(tree_root, key, max, filter) ==
    LET st == IF tree_root = <<>> THEN [heap |-> <<>>, ub |-> FALSE]
              ELSE NodeQuery(tree_root[1], key, max, [heap |-> <<>>, ub |-> FALSE], filter)
    IN  [ub     |-> st.ub,
         output |-> HeapColumn(st.heap, 2),
         dists  |-> HeapColumn(st.heap, 1)]

\* RSTTree::query: the identity filter
query(tree_root, key, k) == query_with_filter(tree_root, key, k, Payloads)

\* What a call that ran into the undefined result.top() can do: crash, return
\* nothing, or return a payload it emplaced after the bogus comparison
UndefinedOutcomes ==
    {[returned |-> FALSE, output |-> <<>>, dists |-> <<>>],
     [returned |-> TRUE, output |-> <<>>, dists |-> <<>>]}
    \cup {[returned |-> TRUE, output |-> <<v>>, dists |-> <<0>>] : v \in Payloads}

\* ------------------------------------------------------------------------
\* State
\* ------------------------------------------------------------------------

VARIABLES
    root,       \* RSTTree::root: <<>> while nullptr, else <<node>>
    inserted,   \* how often each (key, value) pair was given to insert so far
    splits,     \* the splits the last insert performed, leaf first
    thrown,     \* whether the last insert left by an exception
    calls,      \* the number of insert calls so far
    root_split, \* what the last insert's call on the root returned: <<>> while
                \* std::nullopt or no call, else <<SplitResult and the root it left>>
    q,          \* the query call whose result the caller holds: <<>> or <<call>>
    fbs         \* the find_best_split call made on its own: <<>> or <<call>>

vars == <<root, inserted, splits, thrown, calls, root_split, q, fbs>>

Filters == SUBSET Payloads

Scales == [Axes -> 1..MaxScale]

Init ==
    /\ root = <<>>
    /\ inserted = [e \in Points \X Payloads |-> 0]
    /\ splits = <<>>
    /\ thrown = FALSE
    /\ calls = 0
    /\ root_split = <<>>
    /\ q = <<>>
    /\ fbs = <<>>

\* insert(key, value); rev is the order std::sort gives to equal keys in this call
InsertCall(key, value, rev) ==
    /\ q = <<>>
    /\ LET r == TreeInsert(root, key, value, rev)
       IN  /\ root' = IF r.root = <<>> THEN <<>>
                      ELSE <<Identified(r.root[1], calls + 1, 0)>>
           /\ splits' = r.events
           /\ thrown' = r.threw
           /\ root_split' = r.split
    /\ inserted' = [inserted EXCEPT ![<<key, value>>] = @ + 1]
    /\ calls' = calls + 1
    /\ UNCHANGED <<q, fbs>>

\* an insert call, while the model's bound on their number allows one
Insert(key, value, rev) ==
    /\ calls < MaxInserts
    /\ InsertCall(key, value, rev)

\* an insert call of the deeper exploration, which fixes the payload
DeepInsert(key, rev) ==
    /\ calls < MaxDeepInserts
    /\ InsertCall(key, DeepPayload, rev)

\* query_with_filter(key, max, filter, scale) as the header declares it; the
\* definition takes no scale and computes with none.  query(key, max, scale)
\* is the call with the filter that accepts every payload.
Query(key, max, filter, scale) ==
    /\ q = <<>>
    /\ calls <= MaxQueryEntries
    /\ LET r == query_with_filter(root, key, max, filter)
       IN  \E o \in (IF r.ub THEN UndefinedOutcomes
                     ELSE {[returned |-> TRUE, output |-> r.output, dists |-> r.dists]}) :
              q' = <<[key |-> key, max |-> max, filter |-> filter, scale |-> scale,
                      ub |-> r.ub, returned |-> o.returned, output |-> o.output,
                      dists |-> o.dists]>>
    /\ UNCHANGED <<root, inserted, splits, thrown, calls, root_split, fbs>>

\* the caller is done with the returned vector
Discard ==
    /\ q # <<>>
    /\ q' = <<>>
    /\ UNCHANGED <<root, inserted, splits, thrown, calls, root_split, fbs>>

Next ==
    \/ \E key \in Points, value \in Payloads, rev \in BOOLEAN : Insert(key, value, rev)
    \/ \E key \in Points, max \in 0..MaxK, filter \in Filters, scale \in Scales :
          Query(key, max, filter, scale)
    \/ Discard

Spec == Init /\ [][Next]_vars

\* Inserts alone, of one payload, explored to more entries and levels
NextDeep == \E key \in Points, rev \in BOOLEAN : DeepInsert(key, rev)

SpecDeep == Init /\ [][NextDeep]_vars

\* the capacities (N, L) SpecSplit instantiates find_best_split with: L + 1
\* entries must lie within the N + 1 of the array, and L + 1 >= 2m
SplitCapacities ==
    {c \in (2..MaxSplitN) \X (2..MaxSplitL) :
        c[2] <= c[1] /\ c[2] + 1 >= 2 * MinSplitCountOf(c[1])}

\* the points the arrays of N + 1 entries are drawn from
SplitPointsOf(N) ==
    IF N + 1 <= MaxGridEntries
    THEN {p \in [Axes -> 0..MaxSplitCoord] : \A i \in Axes : i > 1 => p[i] \in Coords}
    ELSE {[i \in Axes |-> 0], [i \in Axes |-> 1]}

\* the arrays of N + 1 leaf entries: point regions, payload DeepPayload
SplitArraysOf(N) ==
    {[i \in 1..(N + 1) |-> [region |-> PointMBR(ps[i]), value |-> DeepPayload]] :
        ps \in [1..(N + 1) -> SplitPointsOf(N)]}

\* What a caller of find_best_split sees: its arguments and what it returned
SplitCall(N, L, entries, rev, found) ==
    [N |-> N, L |-> L, m |-> MinSplitCountOf(N), entries |-> entries, rev |-> rev,
     throws |-> found.throws, best_split |-> found.best_split,
     scanned |-> found.scanned, sorted |-> found.entries]

\* RSTLeafNode<D, N, L, S>::find_best_split(entries), called on its own
FindBestSplit(N, L, entries, rev) ==
    /\ fbs = <<>>
    /\ fbs' = <<SplitCall(N, L, entries, rev,
                          find_best_split_of(entries, rev, L, MinSplitCountOf(N)))>>
    /\ UNCHANGED <<root, inserted, splits, thrown, calls, root_split, q>>

NextSplit ==
    \E c \in SplitCapacities, rev \in BOOLEAN :
        \E entries \in SplitArraysOf(c[1]) : FindBestSplit(c[1], c[2], entries, rev)

\* find_best_split alone, over capacities and arrays of entries
SpecSplit == Init /\ [][NextSplit]_vars

\* ------------------------------------------------------------------------
\* Observations of the tree
\* ------------------------------------------------------------------------

\* the nodes of the subtree of node, through children[0..size), in preorder
\* (a sequence: leaves and internal nodes are not comparable as set elements)
RECURSIVE NodesOf(_)
RECURSIVE NodesOfChildren(_, _)
NodesOf(node) ==
    <<node>> \o (IF node.kind = "internal" THEN NodesOfChildren(node, 1) ELSE <<>>)
NodesOfChildren(node, i) ==
    IF i > node.size THEN <<>>
    ELSE NodesOf(node.children[i]) \o NodesOfChildren(node, i + 1)

TreeNodes == IF root = <<>> THEN <<>> ELSE NodesOf(root[1])

EveryNode(P(_)) == \A x \in 1..Len(TreeNodes) : P(TreeNodes[x])

SomeNode(P(_)) == \E x \in 1..Len(TreeNodes) : P(TreeNodes[x])

EveryInternalNode(P(_)) ==
    \A x \in 1..Len(TreeNodes) : TreeNodes[x].kind = "internal" => P(TreeNodes[x])

\* union of the first n regions of a subregions array
RECURSIVE UnionOfRegions(_, _)
UnionOfRegions(subregions, n) ==
    IF n = 0 THEN EmptyMBR ELSE ExpandRegion(UnionOfRegions(subregions, n - 1), subregions[n])

\* union of the entry regions a node holds
EntryUnion(node) == UnionOfRegions(node.subregions, node.size)

\* the entries of the leaves below node, in the order of the arrays
RECURSIVE LeafEntriesFrom(_, _)
LeafEntriesFrom(node, i) ==
    IF i > node.size THEN <<>>
    ELSE (IF node.kind = "internal" THEN LeafEntriesFrom(node.children[i], 1)
          ELSE <<[point |-> node.subregions[i].min, payload |-> node.children[i]]>>)
         \o LeafEntriesFrom(node, i + 1)

LeafEntries(node) == LeafEntriesFrom(node, 1)

StoredEntries == IF root = <<>> THEN <<>> ELSE LeafEntries(root[1])

\* how often the pair (point, payload) is stored in the leaves
StoredCount(point, payload) ==
    Cardinality({i \in 1..Len(StoredEntries) :
                    StoredEntries[i] = [point |-> point, payload |-> payload]})

\* the depths at which the leaves below node lie
RECURSIVE LeafDepths(_)
LeafDepths(node) ==
    IF node.kind = "leaf" THEN {0}
    ELSE {d + 1 : d \in UNION {LeafDepths(node.children[i]) : i \in 1..node.size}}

\* number of levels of the tree, 0 when it is empty
Height == IF root = <<>> THEN 0
          ELSE 1 + (CHOOSE d \in LeafDepths(root[1]) : \A o \in LeafDepths(root[1]) : o <= d)

SplitKinds == {splits[i].kind : i \in 1..Len(splits)}

\* ------------------------------------------------------------------------
\* C1 - Containment: for every entry i < size of every internal node,
\* subregions[i] is exactly the union of the entry regions of children[i].
\* ------------------------------------------------------------------------
C1_Containment ==
    EveryInternalNode(LAMBDA n : \A i \in 1..n.size :
        n.subregions[i] = EntryUnion(n.children[i]))

\* ------------------------------------------------------------------------
\* C2 - Covering: for every internal entry (region, child), every point stored
\* in a leaf of the subtree of child lies inside region.
\* ------------------------------------------------------------------------
C2_Covering ==
    EveryInternalNode(LAMBDA n : \A i \in 1..n.size :
        LET below == LeafEntries(n.children[i])
        IN  \A e \in 1..Len(below) : Contains(n.subregions[i], below[e].point))

\* ------------------------------------------------------------------------
\* C3 - Height uniformity: all leaves are at the same depth, and the children
\* of an internal node are all leaves or all internal nodes.
\* ------------------------------------------------------------------------
C3_HeightUniform ==
    /\ root # <<>> => Cardinality(LeafDepths(root[1])) = 1
    /\ EveryInternalNode(LAMBDA n : \A i, j \in 1..n.size :
          n.children[i].kind = n.children[j].kind)

\* an internal node split and the tree has three levels
C3_Witness ==
    /\ Height = 3
    /\ "internal" \in SplitKinds

\* ------------------------------------------------------------------------
\* C4 - Completeness: the bag of (point, payload) entries in the leaves
\* reachable from the root is the bag of inserted (key, value) pairs.
\* ------------------------------------------------------------------------
C4_Completeness ==
    \A e \in Points \X Payloads : StoredCount(e[1], e[2]) = inserted[e]

\* a pair inserted twice, in a tree whose last insert split a leaf and an
\* internal node and promoted a new root
C4_Witness ==
    /\ \E e \in Points \X Payloads : inserted[e] >= 2
    /\ SplitKinds = {"leaf", "internal"}
    /\ Height = 3

\* ------------------------------------------------------------------------
\* C5 - Capacity: every leaf has size in [0, L], every internal node size in
\* [0, N], and both halves of every split have size >= m.
\* ------------------------------------------------------------------------
C5_Capacity ==
    /\ EveryNode(LAMBDA n :
          /\ n.size >= 0
          /\ n.size = Len(n.children)
          /\ n.size <= (IF n.kind = "leaf" THEN N_KEYS ELSE N_CHILD))
    /\ \A i \in 1..Len(splits) :
          /\ splits[i].lower_size >= MIN_SPLIT_COUNT
          /\ splits[i].upper_size >= MIN_SPLIT_COUNT

\* the last insert split a leaf and an internal node
C5_Witness ==
    /\ SplitKinds = {"leaf", "internal"}
    /\ SomeNode(LAMBDA n : n.kind = "leaf" /\ n.size = N_KEYS)

\* ------------------------------------------------------------------------
\* C10 - Cached region: every node's region is the union of the regions in
\* its own subregions[0..size).
\* ------------------------------------------------------------------------
C10_CachedRegion ==
    EveryNode(LAMBDA n : n.region = EntryUnion(n))

\* a leaf below a non-root internal node split and that node took the sibling
C10_Witness ==
    /\ Height = 3
    /\ SplitKinds = {"leaf"}

\* ------------------------------------------------------------------------
\* Observations of a query call
\* ------------------------------------------------------------------------

\* the scaled squared distance: sum of (scale[i] * (key[i] - point[i]))^2
RECURSIVE ScaledDistFrom(_, _, _, _)
ScaledDistFrom(key, point, scale, i) ==
    IF i > D_REGION THEN 0
    ELSE (scale[i] * (key[i] - point[i])) * (scale[i] * (key[i] - point[i]))
         + ScaledDistFrom(key, point, scale, i + 1)

ScaledDist(key, point, scale) == ScaledDistFrom(key, point, scale, 1)

\* how often payload v occurs in a returned sequence
Occurrences(output, v) == Cardinality({i \in 1..Len(output) : output[i] = v})

\* every payload occurs in inner at most as often as in outer
SubMultiset(inner, outer) ==
    \A v \in Payloads : Occurrences(inner, v) <= Occurrences(outer, v)

\* output is an answer to the kNN question (key, filter, scale, max) on the
\* stored entries: it names, in order, min(max, |F|) distinct filter-passing
\* entries of weakly ascending scaled distance, and no filter-passing entry
\* left out is nearer than one returned
IsNearestAnswer(output, key, max, filter, scale) ==
    LET E    == StoredEntries
        F    == {i \in 1..Len(E) : E[i].payload \in filter}
        r    == Len(output)
        d(i) == ScaledDist(key, E[i].point, scale)
    IN  /\ r = (IF max < Cardinality(F) THEN max ELSE Cardinality(F))
        /\ \E sel \in [1..r -> F] :
              /\ \A i, j \in 1..r : i # j => sel[i] # sel[j]
              /\ \A j \in 1..r : E[sel[j]].payload = output[j]
              /\ \A j \in 1..r : j < r => d(sel[j]) <= d(sel[j + 1])
              /\ \A i \in F : (\A j \in 1..r : sel[j] # i) => \A j \in 1..r : d(sel[j]) <= d(i)

\* ------------------------------------------------------------------------
\* C6 - kNN correctness: query_with_filter(key, k, filter, scale) returns the
\* min(k, |F|) filter-passing points of minimum scaled squared distance, in
\* weakly ascending order of that distance.  Stated for the calls with
\* k >= 1; the calls with k = 0 are C7's.
\* ------------------------------------------------------------------------
C6_NearestNeighbours ==
    \A x \in 1..Len(q) :
        q[x].max >= 1 =>
            /\ q[x].returned
            /\ IsNearestAnswer(q[x].output, q[x].key, q[x].max, q[x].filter, q[x].scale)

\* ------------------------------------------------------------------------
\* C7 - k = 0: a query with max_k = 0 completes normally, returns an empty
\* sequence and never inspects the top of an empty result heap.
\* ------------------------------------------------------------------------
C7_ZeroK ==
    \A x \in 1..Len(q) :
        q[x].max = 0 => q[x].returned /\ q[x].output = <<>> /\ ~q[x].ub

\* ------------------------------------------------------------------------
\* C8 - Filter monotonicity, as claimed: the payloads returned by query (the
\* identity filter) contain, as a multiset, those returned by
\* query_with_filter with the same key and k.  Stated for the calls in which
\* neither query runs into undefined behaviour.
\* ------------------------------------------------------------------------
C8_FilterMonotone ==
    \A x \in 1..Len(q) :
        LET unfiltered == query(root, q[x].key, q[x].max)
        IN  (~q[x].ub /\ ~unfiltered.ub) =>
                SubMultiset(q[x].output, unfiltered.output)

\* C8 as amended: the containment holds when k is at least the number of
\* stored entries, so that the identity-filter query is not cut off at k.
C8_FilterMonotoneUncut ==
    \A x \in 1..Len(q) :
        LET unfiltered == query(root, q[x].key, q[x].max)
        IN  q[x].max >= calls =>
                /\ ~q[x].ub /\ q[x].returned
                /\ ~unfiltered.ub
                /\ SubMultiset(q[x].output, unfiltered.output)

\* a filtered query on a tree with an internal root that returns some, but
\* not all, of what the identity filter returns
C8_Witness ==
    /\ Height = 2
    /\ \E x \in 1..Len(q) :
          /\ q[x].max >= calls
          /\ q[x].filter # Payloads
          /\ q[x].returned
          /\ Len(q[x].output) >= 1
          /\ Len(q[x].output) < Len(query(root, q[x].key, q[x].max).output)

\* ------------------------------------------------------------------------
\* C9 - k monotonicity: for k1 <= k2 the distances of query(key, k1) are the
\* first |query(key, k1)| distances of query(key, k2).
\* ------------------------------------------------------------------------
C9_KMonotone ==
    \A x \in 1..Len(q) :
        (q[x].filter = Payloads /\ q[x].returned /\ ~q[x].ub) =>
            \A k1 \in 0..q[x].max :
                LET smaller == query(root, q[x].key, k1)
                IN  /\ ~smaller.ub
                    /\ Len(smaller.dists) <= Len(q[x].dists)
                    /\ smaller.dists = SubSeq(q[x].dists, 1, Len(smaller.dists))

\* ------------------------------------------------------------------------
\* Observations of a find_best_split call
\* ------------------------------------------------------------------------

\* the triple a is lexicographically at most the triple b
TripleLeq(a, b) ==
    \/ a.overlap < b.overlap
    \/ a.overlap = b.overlap /\ a.margin < b.margin
    \/ a.overlap = b.overlap /\ a.margin = b.margin /\ a.area <= b.area

\* ------------------------------------------------------------------------
\* C11 - Split feasibility: for capacities N >= 2, L >= 2 with L + 1 >= 2m,
\* find_best_split on the entries of an overflowing leaf does not throw
\* "Could not find a valid split." and returns a position that leaves at
\* least m entries on both sides.
\* ------------------------------------------------------------------------
C11_SplitFeasible ==
    \A x \in 1..Len(fbs) :
        /\ ~fbs[x].throws
        /\ fbs[x].best_split.location >= fbs[x].m
        /\ fbs[x].L + 1 - fbs[x].best_split.location >= fbs[x].m

\* ------------------------------------------------------------------------
\* C14 - Split choice is a lexicographic minimum: the triple (overlap, margin,
\* area) of the returned tracker is lexicographically at most the triple of
\* every candidate scanned.
\* ------------------------------------------------------------------------
C14_LexicographicMinimum ==
    \A x \in 1..Len(fbs) :
        ~fbs[x].throws =>
            \A c \in 1..Len(fbs[x].scanned) :
                TripleLeq(fbs[x].best_split, fbs[x].scanned[c])

\* ------------------------------------------------------------------------
\* C15 - Candidate split positions: for each axis a in [0, D) every position
\* k with m <= k <= L + 1 - m, both bounds inclusive, is evaluated.
\* ------------------------------------------------------------------------
C15_CandidatePositions ==
    \A x \in 1..Len(fbs) :
        \A a \in 0..(D_REGION - 1), k \in fbs[x].m..(fbs[x].L + 1 - fbs[x].m) :
            \E c \in 1..Len(fbs[x].scanned) :
                fbs[x].scanned[c].axis = a /\ fbs[x].scanned[c].location = k

\* ------------------------------------------------------------------------
\* Observations of the splits of the last insert
\* ------------------------------------------------------------------------

\* capacity of the node a split event is about
CapacityOf(event) == IF event.kind = "leaf" THEN N_KEYS ELSE N_CHILD

C18_AppliedIsEvaluated ==
    \A i \in 1..Len(splits) :
        /\ compute_overlap(splits[i].lower, splits[i].upper) = splits[i].best_split.overlap
        /\ compute_margin(splits[i].lower, splits[i].upper) = splits[i].best_split.margin
        /\ compute_area(splits[i].lower, splits[i].upper) = splits[i].best_split.area


\* ------------------------------------------------------------------------
\* C16: choose subtree
\* ------------------------------------------------------------------------

\* the area enlargement child i's stored subregion needs to cover key_mbr
Enlargement(this, i, key_mbr) ==
    Area(ExpandRegion(this.subregions[i], key_mbr)) - Area(this.subregions[i])

\* child i is to be preferred to child j, or is child j: less enlargement, then
\* smaller original area, then lower index
ChildPreferred(this, i, j, key_mbr) ==
    \/ Enlargement(this, i, key_mbr) < Enlargement(this, j, key_mbr)
    \/ /\ Enlargement(this, i, key_mbr) = Enlargement(this, j, key_mbr)
       /\ \/ Area(this.subregions[i]) < Area(this.subregions[j])
          \/ Area(this.subregions[i]) = Area(this.subregions[j]) /\ i <= j

\* the child the choose-subtree rule names
ChosenSubtree(this, key_mbr) ==
    CHOOSE i \in 1..this.size : \A j \in 1..this.size : ChildPreferred(this, i, j, key_mbr)

\* the children of the node after its insert, those moved to its sibling included
ChildrenAfter(r) ==
    IF r.split = <<>> THEN r.node.children
    ELSE r.node.children \o r.split[1].sibling.children

\* r is what the insert of key into this gave: every child but best is among
\* the children afterwards as it was; when this did not split, the others are in
\* their places, and best, with the sibling it split off if it did, holds the
\* entries it held and the new one
OnlyChildChanged(this, best, r, key) ==
    /\ \A j \in 1..this.size : j # best =>
          \E i \in 1..Len(ChildrenAfter(r)) : ChildrenAfter(r)[i] = this.children[j]
    /\ ~r.threw /\ r.split = <<>> =>
          /\ \A j \in 1..this.size : j # best => r.node.children[j] = this.children[j]
          /\ r.node.size \in {this.size, this.size + 1}
          /\ Len(LeafEntries(r.node.children[best]))
                + (IF r.node.size = this.size THEN 0
                   ELSE Len(LeafEntries(r.node.children[r.node.size])))
             = Len(LeafEntries(this.children[best])) + 1

\* C16: in every internal node of the tree, for every key, find_best_child_insertion
\* gives the child of least enlargement, among those the one of smaller original
\* area, among those the one of lowest index, and the insert of the key into the
\* node, while another insert can follow, changes that child and no other.
C16_ChooseSubtree ==
    EveryInternalNode(LAMBDA n :
        \A key \in Points :
            /\ find_best_child_insertion(n, PointMBR(key)) = ChosenSubtree(n, PointMBR(key))
            /\ calls < MaxDeepInserts => \A rev \in BOOLEAN :
                  OnlyChildChanged(n, find_best_child_insertion(n, PointMBR(key)),
                                   InternalInsert(n, key, DeepPayload, rev), key))

\* an insert has descended through an internal root; for some key two children
\* of a node tie on enlargement and area, and for some key the rule names a
\* child that is not the first
C16_Witness ==
    /\ root # <<>> /\ root[1].kind = "internal"
    /\ Len(StoredEntries) > N_KEYS + 1
    /\ SomeNode(LAMBDA n : n.kind = "internal" /\ \E key \in Points :
          /\ Enlargement(n, 1, PointMBR(key)) = Enlargement(n, 2, PointMBR(key))
          /\ Area(n.subregions[1]) = Area(n.subregions[2])
          /\ find_best_child_insertion(n, PointMBR(key)) = 1)
    /\ SomeNode(LAMBDA n : n.kind = "internal" /\ \E key \in Points :
          find_best_child_insertion(n, PointMBR(key)) > 1)



\* ------------------------------------------------------------------------
\* C13: root promotion
\* ------------------------------------------------------------------------

\* a and b are the same node: kind, size and region, and slot by slot the same
\* subregion and the same payload or child
RECURSIVE SameNode(_, _)
SameNode(a, b) ==
    /\ a.kind = b.kind
    /\ a.size = b.size
    /\ a.region = b.region
    /\ a.subregions = b.subregions
    /\ Len(a.children) = Len(b.children)
    /\ \A i \in 1..Len(a.children) :
          IF a.kind = "internal" THEN SameNode(a.children[i], b.children[i])
          ELSE a.children[i] = b.children[i]

\* the root after a promotion is the internal node over the old root and the
\* sibling the old root's insert returned
PromotedRoot(new_root, s) ==
    /\ new_root.kind = "internal"
    /\ new_root.size = 2
    /\ SameNode(new_root.children[1], s.old_root)
    /\ new_root.subregions[1] = s.old_root.region
    /\ SameNode(new_root.children[2], s.sibling)
    /\ new_root.subregions[2] = s.new_region

\* C13: an insert increases the height of the tree by at most one; an insert
\* into a tree that has a root increases it exactly when the insert on the root
\* returns a SplitResult, and the new root is then an internal node of size 2
\* with the old root and its region in slot 0, the returned sibling and
\* new_region in slot 1.  The steps that change calls are the inserts.
C13_RootPromotion ==
    [][calls' = calls + 1 =>
          /\ Height' >= Height
          /\ Height' <= Height + 1
          /\ root # <<>> =>
                /\ (Height' = Height + 1) <=> (root_split' # <<>>)
                /\ root_split' # <<>> => PromotedRoot(root'[1], root_split'[1])
                /\ root_split' = <<>> => root'[1].kind = root[1].kind]_calls

\* the root has just been promoted for the second time: the old root in its
\* slot 0 is itself internal, and it differs from the sibling in slot 1
C13_Witness ==
    /\ root_split # <<>>
    /\ Height = 3
    /\ root[1].children[1].kind = "internal"
    /\ ~SameNode(root[1].children[1], root[1].children[2])
    /\ root[1].subregions[1] # root[1].subregions[2]



\* ------------------------------------------------------------------------
\* C12: unique ownership
\* ------------------------------------------------------------------------

\* the identities of the nodes reachable from the root
NodeIds == {TreeNodes[x].id : x \in 1..Len(TreeNodes)}

\* the identities held in the child slots of the internal nodes
ChildIds ==
    UNION {{TreeNodes[x].children[i].id : i \in 1..TreeNodes[x].size} :
              x \in {y \in 1..Len(TreeNodes) : TreeNodes[y].kind = "internal"}}

\* no two paths from the root end in the same node, and the root is in no child slot
OwnedOnce ==
    /\ Cardinality(NodeIds) = Len(TreeNodes)
    /\ root # <<>> => root[1].id \notin ChildIds

\* the number of nodes the insert call that has just returned constructed: the
\* first leaf, a sibling per split, a root per promotion
Constructed ==
    (IF calls = 1 THEN 1 ELSE 0) + Len(splits) + (IF root_split # <<>> THEN 1 ELSE 0)

\* C12: after any sequence of inserts no node is in two child slots, of two
\* parents or of one, the root is in none, and every node a split or a root
\* promotion created is reachable from the root by exactly one path: an insert
\* keeps the nodes there were and adds the ones it constructed, each once.
C12_UniqueOwnership ==
    /\ []OwnedOnce
    /\ [][calls' = calls + 1 =>
             /\ NodeIds \subseteq NodeIds'
             /\ Cardinality(NodeIds') = Cardinality(NodeIds) + Constructed']_calls

\* a tree of three levels in which an insert has just split a leaf and an
\* internal node and promoted the root
C12_Witness ==
    /\ Height = 3
    /\ SplitKinds = {"leaf", "internal"}
    /\ root_split # <<>>
    /\ Cardinality(NodeIds) = 6


====
